---- MODULE Spec2Model ----
(***************************************************************************)
(* Model of revset-explorer: the bounded edit history (src/src/history.rs), *)
(* the construction of the capped commit graph and the update of the       *)
(* application with its two query fields (src/src/main.rs).                *)
(***************************************************************************)
EXTENDS Integers, Sequences, FiniteSets, TLC

(***************************************************************************)
(* Bounds of the model.                                                    *)
(***************************************************************************)
\* History::new is called with max_size in 0..MaxHistorySize
MaxHistorySize == 3
\* width of usize in the model (64 on the real target; scaled to fit TLC's integers)
UsizeBits == 16
\* cap on view_pos, which a release build lets grow on an empty history
MaxViewPos == 3

\* the strings that are entered into a history
Values == {"@", "@-", "@--"}

UsizeModulus == 2 ^ UsizeBits

(***************************************************************************)
(* State of a History (history.rs:1-6), the build profile, and the record  *)
(* of the last call with the state it was made in.                         *)
(***************************************************************************)
VARIABLES
    items,              \* History.items
    max_size,           \* History.max_size
    view_pos,           \* History.view_pos
    last_is_tentative,  \* History.last_is_tentative
    overflow_checks,    \* TRUE: debug profile, arithmetic overflow panics; FALSE: it wraps
    panicked,           \* a call has panicked; the thread is gone
    added,              \* some add has returned
    call,               \* the last call: its name and arguments
    pre,                \* items, view_pos and last_is_tentative when the last call was made
    revset,             \* what the engine answers for the query text of create_graph
    pc,                 \* position inside create_graph: "idle", "loop" or "edges"
    loop,               \* the locals of create_graph and the state of its iterator
    created,            \* what the call of create_graph returned, once it has
    filter_revset,      \* ExplorerApp.filter_revset: value, old_value, error
    view_revset,        \* ExplorerApp.view_revset: value, old_value, error
    graph,              \* ExplorerApp.graph: nodes, edges and the colour of each node
    node_idxs,          \* ExplorerApp.node_idxs
    working_copy_commit_id, \* ExplorerApp.working_copy_commit_id, None when there is none
    immutable,          \* what the engine answers for "immutable()" in this repository
    tick,               \* position inside ExplorerApp::new and ExplorerApp::update
    view_updated,       \* the local view_updated of update
    before,             \* the fields of ExplorerApp when the current update began
    builds,             \* calls of create_graph made by the current update
    marked              \* what mark_graph returned in the current update, "none" if not called

history_vars == <<items, max_size, view_pos, last_is_tentative, overflow_checks, panicked,
                  added, call, pre>>

graph_vars == <<revset, pc, loop, created>>

app_vars == <<filter_revset, view_revset, graph, node_idxs, working_copy_commit_id,
              immutable, tick, view_updated, before, builds, marked>>

vars == <<items, max_size, view_pos, last_is_tentative, overflow_checks, panicked,
          added, call, pre, revset, pc, loop, created,
          filter_revset, view_revset, graph, node_idxs, working_copy_commit_id,
          immutable, tick, view_updated, before, builds, marked>>

NoArg == [arg |-> "", is_tentative |-> FALSE]

Snapshot == [items |-> items, view_pos |-> view_pos, last_is_tentative |-> last_is_tentative]

(***************************************************************************)
(* Vec and usize primitives used by History.                               *)
(***************************************************************************)
\* Vec::last() == Some(arg)
last_is(its, arg) == Len(its) > 0 /\ its[Len(its)] = arg

\* Vec::remove(0) on a non-empty vector
remove_first(its) == SubSeq(its, 2, Len(its))

\* Vec::pop(): removes the last element, None (no change) on an empty vector
pop(its) == IF Len(its) = 0 THEN its ELSE SubSeq(its, 1, Len(its) - 1)

\* usize::saturating_sub
saturating_sub(a, b) == IF a < b THEN 0 ELSE a - b

\* usize subtraction in a build without overflow checks
wrapping_sub(a, b) == (a - b) % UsizeModulus

(***************************************************************************)
(* History::new (history.rs:9-16)                                          *)
(***************************************************************************)
History_new ==
    /\ items = <<>>
    /\ max_size \in 0..MaxHistorySize
    /\ view_pos = 0
    /\ last_is_tentative = FALSE
    /\ overflow_checks \in BOOLEAN
    /\ panicked = FALSE
    /\ added = FALSE
    /\ call = [op |-> "new"] @@ NoArg
    /\ pre = [items |-> <<>>, view_pos |-> 0, last_is_tentative |-> FALSE]

(***************************************************************************)
(* History::add (history.rs:18-32), statement by statement.                *)
(***************************************************************************)
\* mutant: the early return is missing
add_is_duplicate_never(its, arg) == FALSE

\* line 19: the early return on a repeated value
add_is_duplicate(its, arg) == last_is(its, arg)

\* mutant: the capacity test is off by one
add_at_capacity_late(its, ms) == Len(its) > ms

\* line 22: the capacity test
add_at_capacity(its, ms) == Len(its) >= ms

\* lines 22-24: remove(0) at capacity (the caller has excluded the empty vector)
add_evict(its, ms) == IF add_at_capacity(its, ms) THEN remove_first(its) ELSE its

\* mutant: the tentative entry is kept
add_discard_never(its, lit) == its

\* lines 25-27: pop the last entry when the tentative flag is set
add_discard(its, lit) == IF lit THEN pop(its) ELSE its

\* line 28: push
add_push(its, arg) == Append(its, arg)

\* lines 22-28 together
add_items(its, ms, lit, arg) == add_push(add_discard(add_evict(its, ms), lit), arg)

\* line 29
add_tentative(is_tentative) == is_tentative

\* mutant: the cursor is sent to the oldest entry
add_view_pos_first(its) == 0

\* line 31: the vector is non-empty here, the subtraction cannot underflow
add_view_pos(its) == Len(its) - 1

\* line 23 panics when remove(0) is called on an empty vector
add_panics(its, ms, arg) ==
    /\ ~add_is_duplicate(its, arg)
    /\ add_at_capacity(its, ms)
    /\ Len(its) = 0

add(arg, is_tentative) ==
    /\ ~panicked
    /\ call' = [op |-> "add", arg |-> arg, is_tentative |-> is_tentative]
    /\ pre' = Snapshot
    /\ UNCHANGED <<max_size, overflow_checks>>
    /\ IF add_is_duplicate(items, arg)
       THEN /\ added' = TRUE
            /\ UNCHANGED <<items, view_pos, last_is_tentative, panicked>>
       ELSE IF add_panics(items, max_size, arg)
       THEN /\ panicked' = TRUE
            /\ UNCHANGED <<items, view_pos, last_is_tentative, added>>
       ELSE /\ items' = add_items(items, max_size, last_is_tentative, arg)
            /\ last_is_tentative' = add_tentative(is_tentative)
            /\ view_pos' = add_view_pos(items')
            /\ added' = TRUE
            /\ UNCHANGED panicked

(***************************************************************************)
(* History::get (history.rs:34-36): defined when view_pos is in range.     *)
(***************************************************************************)
get_in_range == view_pos < Len(items)

get == items[view_pos + 1]

(***************************************************************************)
(* History::set_last_tentative (history.rs:38-40)                          *)
(***************************************************************************)
set_last_tentative(is_tentative) ==
    /\ ~panicked
    /\ call' = [op |-> "set_last_tentative", arg |-> "", is_tentative |-> is_tentative]
    /\ pre' = Snapshot
    /\ last_is_tentative' = is_tentative
    /\ UNCHANGED <<items, max_size, view_pos, overflow_checks, panicked, added>>

(***************************************************************************)
(* History::prev (history.rs:42-44)                                        *)
(***************************************************************************)
\* mutant: prev jumps to the oldest entry
prev_pos_first(vp) == 0

prev_pos(vp) == saturating_sub(vp, 1)

prev ==
    /\ ~panicked
    /\ call' = [op |-> "prev"] @@ NoArg
    /\ pre' = Snapshot
    /\ view_pos' = prev_pos(view_pos)
    /\ UNCHANGED <<items, max_size, last_is_tentative, overflow_checks, panicked, added>>

(***************************************************************************)
(* History::next (history.rs:46-50).  items.len() - 1 underflows on an     *)
(* empty vector: a panic with overflow checks, usize::MAX without.         *)
(***************************************************************************)
next_underflows(its) == Len(its) < 1

\* mutant: the bound of next is off by one
next_pos_late(vp, its) == IF vp <= wrapping_sub(Len(its), 1) THEN vp + 1 ELSE vp

next_pos(vp, its) == IF vp < wrapping_sub(Len(its), 1) THEN vp + 1 ELSE vp

next ==
    /\ ~panicked
    /\ Len(items) = 0 => view_pos < MaxViewPos
    /\ call' = [op |-> "next"] @@ NoArg
    /\ pre' = Snapshot
    /\ UNCHANGED <<items, max_size, last_is_tentative, overflow_checks, added>>
    /\ IF next_underflows(items) /\ overflow_checks
       THEN /\ panicked' = TRUE
            /\ UNCHANGED view_pos
       ELSE /\ view_pos' = next_pos(view_pos, items)
            /\ UNCHANGED panicked


(***************************************************************************)
(* The repository engine as create_graph sees it (main.rs:122-145).        *)
(* A revset is what the engine answers for one query text: whether         *)
(* get_revset fails and in which stage, how many commits iter_graph        *)
(* yields, the parents of each, and the step that fails, if any.           *)
(* The i-th item yielded carries CommitId i; its edges point to the        *)
(* commits yielded `offsets` places later.  A target past the end of a     *)
(* finite sequence is a commit outside the result.                         *)
(***************************************************************************)
MAX_NODES == 100

\* iter_graph yields 0..MaxSlack items, or MAX_NODES give or take MaxSlack, or never ends
MaxSlack == 2
\* a commit's parents are at most MaxParentOffset places after it
MaxParentOffset == 2

Lengths == (0..MaxSlack) \cup ((MAX_NODES - MaxSlack)..(MAX_NODES + MaxSlack))

Stages == {"parse", "resolve", "evaluate"}

Steps == {"iter_graph", "get_commit", "shortest_unique_change_id_prefix_len"}

NoFailure == [step |-> "none", at |-> 0]

Failures ==
    {NoFailure} \cup [step : Steps, at : {1, MaxSlack, MAX_NODES, MAX_NODES + 1}]

Revsets ==
    [stage : {"ok"}, unbounded : {FALSE}, len : Lengths,
     offsets : SUBSET (1..MaxParentOffset), failure : Failures]
    \cup
    [stage : {"ok"}, unbounded : {TRUE}, len : {0},
     offsets : SUBSET (1..MaxParentOffset), failure : Failures]
    \cup
    [stage : Stages, unbounded : {FALSE}, len : {0}, offsets : {{}}, failure : {NoFailure}]

\* Iterator::next of iter_graph at position i: is there an item
has_item(rs, i) == rs.unbounded \/ i <= rs.len

\* rev.0 of the i-th item
commit_id_at(i) == i

\* rev.1 of the i-th item: the targets of its edges, in order
RECURSIVE targets_from(_, _, _)
targets_from(i, offs, d) ==
    IF d > MaxParentOffset THEN <<>>
    ELSE (IF d \in offs THEN <<i + d>> ELSE <<>>) \o targets_from(i, offs, d + 1)

commit_edges_at(rs, i) == targets_from(i, rs.offsets, 1)

\* the step of the i-th iteration that returns Err, "none" when all succeed
failing_step(rs, i) == IF rs.failure.at = i THEN rs.failure.step ELSE "none"

(***************************************************************************)
(* JjGraph::get_revset (jjgraph.rs:66-96): every failing stage is mapped   *)
(* to RevsetError::ParseError.                                             *)
(***************************************************************************)
get_revset(rs) ==
    IF rs.stage = "ok" THEN [ok |-> TRUE, err |-> "none"]
    ELSE [ok |-> FALSE, err |-> "ParseError"]

(***************************************************************************)
(* create_graph (main.rs:115-184).  The loop over the lazy sequence takes  *)
(* one step per iteration; pc is the position inside the call.             *)
(***************************************************************************)
\* Option::None of HashMap::get
None == 0

\* node_map.get(id)
node_map_get(node_map, id) == IF id \in DOMAIN node_map THEN node_map[id] ELSE None

\* mutant: one item too many is taken
take_count_late == MAX_NODES + 1

\* line 135: the argument of take
take_count == MAX_NODES

\* lines 131-133 and the iterator of line 135: `left` is the count Take
\* still holds, `requested` the number of items asked of iter_graph
EmptyLoop ==
    [nodes |-> <<>>, node_idxs |-> <<>>, node_map |-> <<>>, edges |-> <<>>,
     requested |-> 0, left |-> take_count]

\* mutant: Take asks the underlying iterator whatever its count
take_exhausted_never(acc) == FALSE

\* Take::next: None without asking the underlying iterator once the count is used up
take_exhausted(acc) == acc.left = 0

\* one call of Iterator::next on the underlying sequence
request(acc) == [acc EXCEPT !.requested = @ + 1, !.left = @ - 1]

\* lines 163-169: one node is added and its edges are collected
add_node(acc, rs, i) ==
    LET node_idx == Len(acc.nodes) + 1
        commit_id == commit_id_at(i)
        targets == commit_edges_at(rs, i)
    IN  [acc EXCEPT
            !.nodes = Append(@, commit_id),
            !.node_idxs = Append(@, node_idx),
            !.node_map = (commit_id :> node_idx) @@ @,
            !.edges = @ \o [k \in 1..Len(targets) |-> <<commit_id, targets[k]>>]]

\* mutant: only the source of an edge is looked up
edge_kept_source(node_map, edge) == node_map_get(node_map, edge[1]) # None

\* lines 172-177: an edge is kept when both ends are in node_map
edge_kept(node_map, edge) ==
    /\ node_map_get(node_map, edge[1]) # None
    /\ node_map_get(node_map, edge[2]) # None

\* lines 171-179: the edges of the graph in the order they are added, as
\* pairs of node indices
add_edges(node_map, edges) ==
    LET kept == SelectSeq(edges, LAMBDA edge : edge_kept(node_map, edge))
    IN  [k \in 1..Len(kept) |->
            <<node_map_get(node_map, kept[k][1]), node_map_get(node_map, kept[k][2])>>]

\* line 181
limit_hit(idxs) == Len(idxs) = MAX_NODES

\* the call has not returned
NotReturned ==
    [ok |-> FALSE, err |-> "none", graph |-> [nodes |-> <<>>, edges |-> <<>>],
     node_idxs |-> <<>>, limit_hit |-> FALSE]

\* Err(CreateError::...)
CreateError(kind) ==
    [ok |-> FALSE, err |-> kind, graph |-> [nodes |-> <<>>, edges |-> <<>>],
     node_idxs |-> <<>>, limit_hit |-> FALSE]

\* line 183: Ok((graph, node_idxs, limit_hit))
CreateOk(acc) ==
    [ok |-> TRUE, err |-> "none",
     graph |-> [nodes |-> acc.nodes, edges |-> add_edges(acc.node_map, acc.edges)],
     node_idxs |-> acc.node_idxs,
     limit_hit |-> limit_hit(acc.node_idxs)]

\* lines 119-133: the call, up to the loop
create_graph(rs) ==
    /\ pc = "idle"
    /\ revset' = rs
    /\ loop' = EmptyLoop
    /\ IF get_revset(rs).ok
       THEN pc' = "loop" /\ created' = NotReturned
       ELSE pc' = "idle" /\ created' = CreateError("RevsetParseError")
    /\ UNCHANGED history_vars

\* lines 135-170: one iteration, or the end of the loop
create_graph_iterate ==
    /\ pc = "loop"
    /\ UNCHANGED <<revset, history_vars>>
    /\ IF take_exhausted(loop)
       THEN pc' = "edges" /\ UNCHANGED <<loop, created>>
       ELSE LET i == loop.requested + 1
            IN  /\ IF ~has_item(revset, i)
                   THEN pc' = "edges" /\ loop' = request(loop) /\ UNCHANGED created
                   ELSE IF failing_step(revset, i) # "none"
                   THEN /\ pc' = "idle"
                        /\ loop' = request(loop)
                        /\ created' = CreateError("JjError")
                   ELSE /\ pc' = "loop"
                        /\ loop' = add_node(request(loop), revset, i)
                        /\ UNCHANGED created

\* lines 171-183: the edges are added and the graph is returned
create_graph_return ==
    /\ pc = "edges"
    /\ pc' = "idle"
    /\ created' = CreateOk(loop)
    /\ UNCHANGED <<revset, loop, history_vars>>

(***************************************************************************)
(* The repository the application is started on, as the engine answers     *)
(* for it.  The repository is loaded once (jjgraph.rs:39-44), so a text    *)
(* has the same answer every time it is asked.  A revset that yields the   *)
(* commits 1..len contains exactly those; its membership test fails for    *)
(* the commits from the failing one on.                                    *)
(***************************************************************************)
\* main.rs:196-197
InitialView == "present(@) | ancestors(immutable_heads().., 5) | present(trunk())"

\* main.rs:194
InitialFilter == "@"

\* the texts typed into the two fields
Texts == {InitialFilter, InitialView, "all()", "none()", "(", "corrupt()"}

Answer(stage, len, offsets, failure) ==
    [stage |-> stage, unbounded |-> FALSE, len |-> len, offsets |-> offsets,
     failure |-> failure]

engine(text) ==
    CASE text = InitialFilter -> Answer("ok", 1, {1}, NoFailure)
      [] text = InitialView -> Answer("ok", 3, {1}, NoFailure)
      [] text = "all()" -> Answer("ok", MAX_NODES + 1, {1, 2}, NoFailure)
      [] text = "none()" -> Answer("ok", 0, {}, NoFailure)
      [] text = "(" -> Answer("parse", 0, {}, NoFailure)
      [] text = "corrupt()" -> Answer("ok", 3, {1}, [step |-> "get_commit", at |-> 2])

\* Revset::containing_fn: the membership test returns Err
contains_fails(rs, commit_id) == rs.failure.step # "none" /\ commit_id >= rs.failure.at

\* Revset::containing_fn: the membership test returns Ok(true)
contains(rs, commit_id) == rs.unbounded \/ commit_id <= rs.len

\* the answers for "immutable()": it does not resolve, or the commits from
\* `from` on are immutable and the test fails from `fail_from` on (0: never)
ImmutableAnswers ==
    {[stage |-> "ok", from |-> 1, fail_from |-> 0],
     [stage |-> "ok", from |-> 3, fail_from |-> 0],
     [stage |-> "ok", from |-> 3, fail_from |-> 2],
     [stage |-> "resolve", from |-> 0, fail_from |-> 0]}

\* the working copy is the first commit of the log, or the workspace has none
WorkingCopies == {None, 1}

(***************************************************************************)
(* RevsetEntry (main.rs:93-107)                                            *)
(***************************************************************************)
\* Option::None of RevsetEntry.error
NoError == "none"

RevsetEntry_new(initial_value) ==
    [value |-> initial_value, old_value |-> "", error |-> NoError]

\* mutant: a text never counts as changed
is_dirty_never(entry) == FALSE

\* value != old_value (main.rs:315, 335)
is_dirty(entry) == entry.value # entry.old_value

(***************************************************************************)
(* ExplorerApp::mark_graph (main.rs:214-288)                               *)
(***************************************************************************)
\* the colour of a node that was never marked
NoColor == "default"

\* mutant: an immutable working copy is shown as immutable
node_type_immutable_first(is_wc_commit, is_immutable) ==
    IF is_immutable THEN "Immutable"
    ELSE IF is_wc_commit THEN "WorkingCopy"
    ELSE "Regular"

\* lines 257-263
node_type(is_wc_commit, is_immutable) ==
    IF is_wc_commit THEN "WorkingCopy"
    ELSE IF is_immutable THEN "Immutable"
    ELSE "Regular"

\* lines 264-268
filter_match(matches_filter) == IF matches_filter THEN "Match" ELSE "NoMatch"

\* lines 270-279
color_map(type, match) ==
    CASE type = "WorkingCopy" /\ match = "Match" -> "#26ff00ff"
      [] type = "WorkingCopy" /\ match = "NoMatch" -> "#295923"
      [] type = "Immutable" /\ match = "Match" -> "#21cdff"
      [] type = "Immutable" /\ match = "NoMatch" -> "#2e5059"
      [] type = "Regular" /\ match = "Match" -> "#fffc00"
      [] type = "Regular" /\ match = "NoMatch" -> "#636222"

\* lines 241-244
is_wc_commit(wc, commit_id) == wc # None /\ commit_id = wc

\* lines 218-226: in_filter, the test of the filter revset or the constant
\* Ok(false) when the revset is bad
in_filter_fails(filter, commit_id) ==
    get_revset(filter).ok /\ contains_fails(filter, commit_id)

in_filter(filter, commit_id) == get_revset(filter).ok /\ contains(filter, commit_id)

\* lines 234, 239
is_immutable_fails(imm, commit_id) == imm.fail_from # 0 /\ commit_id >= imm.fail_from

is_immutable(imm, commit_id) == commit_id >= imm.from

\* lines 238-280: the colour one iteration of the loop sets
node_color(filter, imm, wc, commit_id) ==
    color_map(node_type(is_wc_commit(wc, commit_id), is_immutable(imm, commit_id)),
              filter_match(in_filter(filter, commit_id)))

\* lines 239-240: the iteration of the loop that returns Err(JjError)
node_fails(filter, imm, commit_id) ==
    is_immutable_fails(imm, commit_id) \/ in_filter_fails(filter, commit_id)

\* the first position of node_idxs whose iteration fails, past the end if none does
first_failing(g, idxs, filter, imm) ==
    LET failing == {n \in 1..Len(idxs) : node_fails(filter, imm, g.nodes[idxs[n]])}
    IN  IF failing = {} THEN Len(idxs) + 1
        ELSE CHOOSE n \in failing : \A m \in failing : n <= m

\* lines 236-281: the colours after the loop, which sets them in place up
\* to the iteration that fails
marked_colors(g, idxs, filter, imm, wc) ==
    LET stop == first_failing(g, idxs, filter, imm)
    IN  [i \in 1..Len(g.nodes) |->
            IF \E n \in 1..(stop - 1) : idxs[n] = i
            THEN node_color(filter, imm, wc, g.nodes[i])
            ELSE g.colors[i]]

\* the value mark_graph returns and the colours it leaves
mark_graph(g, idxs, filter, imm, wc) ==
    IF imm.stage # "ok"
    THEN [result |-> "JjError", colors |-> g.colors]
    ELSE [result |-> IF first_failing(g, idxs, filter, imm) <= Len(idxs) THEN "JjError"
                     ELSE IF ~get_revset(filter).ok THEN "RevsetParseError"
                     ELSE "Ok",
          colors |-> marked_colors(g, idxs, filter, imm, wc)]

(***************************************************************************)
(* ExplorerApp::new (main.rs:193-212)                                      *)
(***************************************************************************)
\* a graph as create_graph returns it: no node has a colour yet
fresh_graph(cr) ==
    [nodes |-> cr.graph.nodes, edges |-> cr.graph.edges,
     colors |-> [i \in 1..Len(cr.graph.nodes) |-> NoColor]]

AppSnapshot ==
    [filter_revset |-> filter_revset, view_revset |-> view_revset,
     graph |-> graph, node_idxs |-> node_idxs]

\* the process has started and ExplorerApp::new has not called create_graph
ExplorerApp_start ==
    /\ tick = "new"
    /\ filter_revset = RevsetEntry_new(InitialFilter)
    /\ view_revset = RevsetEntry_new(InitialView)
    /\ graph = [nodes |-> <<>>, edges |-> <<>>, colors |-> <<>>]
    /\ node_idxs = <<>>
    /\ working_copy_commit_id \in WorkingCopies
    /\ immutable \in ImmutableAnswers
    /\ view_updated = FALSE
    /\ before = [filter_revset |-> RevsetEntry_new(InitialFilter),
                 view_revset |-> RevsetEntry_new(InitialView),
                 graph |-> [nodes |-> <<>>, edges |-> <<>>, colors |-> <<>>],
                 node_idxs |-> <<>>]
    /\ builds = 0
    /\ marked = "none"

\* line 199: the call of create_graph
new_create_graph ==
    /\ tick = "new"
    /\ created = NotReturned
    /\ create_graph(engine(InitialView))
    /\ UNCHANGED app_vars

\* lines 199-211: unwrap (a panic on Err: the application does not start)
\* and the construction of ExplorerApp
new_return ==
    /\ tick = "new"
    /\ pc = "idle"
    /\ created.ok
    /\ graph' = fresh_graph(created)
    /\ node_idxs' = created.node_idxs
    /\ tick' = "idle"
    /\ UNCHANGED <<filter_revset, view_revset, working_copy_commit_id, immutable,
                   view_updated, before, builds, marked>>
    /\ UNCHANGED <<graph_vars, history_vars>>

(***************************************************************************)
(* ExplorerApp::update (main.rs:292-377)                                   *)
(***************************************************************************)
\* lines 315-317: view_updated, and the call of create_graph when it is set
update_begin ==
    /\ tick = "idle"
    /\ before' = AppSnapshot
    /\ marked' = "none"
    /\ view_updated' = is_dirty(view_revset)
    /\ IF is_dirty(view_revset)
       THEN /\ create_graph(engine(view_revset.value))
            /\ builds' = 1
            /\ tick' = "build"
       ELSE /\ builds' = 0
            /\ tick' = "mark"
            /\ UNCHANGED <<graph_vars, history_vars>>
    /\ UNCHANGED <<filter_revset, view_revset, graph, node_idxs, working_copy_commit_id,
                   immutable>>

\* lines 318-331: the error of the view field after the build
view_error(cr) ==
    IF cr.ok
    THEN (IF cr.limit_hit THEN "Node limit reached. The graph is incomplete." ELSE NoError)
    ELSE cr.err

\* mutant: the graph is replaced whatever create_graph returned
applied_graph_always(cr, g) == fresh_graph(cr)

\* lines 319-320: the graph is replaced on Ok
applied_graph(cr, g) == IF cr.ok THEN fresh_graph(cr) ELSE g

\* lines 319-321: the node list is replaced on Ok
applied_node_idxs(cr, idxs) == IF cr.ok THEN cr.node_idxs ELSE idxs

\* mutant: the view text counts as processed only when the build succeeded
applied_old_value_on_ok(cr, entry) == IF cr.ok THEN entry.value ELSE entry.old_value

\* line 332
applied_old_value(cr, entry) == entry.value

\* lines 318-332: the result of create_graph is applied
update_apply ==
    /\ tick = "build"
    /\ pc = "idle"
    /\ graph' = applied_graph(created, graph)
    /\ node_idxs' = applied_node_idxs(created, node_idxs)
    /\ view_revset' = [view_revset EXCEPT !.error = view_error(created),
                                          !.old_value = applied_old_value(created, view_revset)]
    /\ tick' = "mark"
    /\ UNCHANGED <<filter_revset, working_copy_commit_id, immutable, view_updated, before,
                   builds, marked>>
    /\ UNCHANGED <<graph_vars, history_vars>>

\* mutant: the nodes are marked only when the filter text changed
should_mark_filter_only(updated, entry) == is_dirty(entry)

\* line 335
should_mark(updated, entry) == updated \/ is_dirty(entry)

\* lines 337-341: the error of the filter field after mark_graph
filter_error(result) == IF result = "RevsetParseError" THEN result ELSE NoError

\* lines 335-343: the nodes are marked
update_mark ==
    /\ tick = "mark"
    /\ tick' = "ui"
    /\ IF should_mark(view_updated, filter_revset)
       THEN LET update_result ==
                    mark_graph(graph, node_idxs, engine(filter_revset.value), immutable,
                               working_copy_commit_id)
            IN  /\ graph' = [graph EXCEPT !.colors = update_result.colors]
                /\ marked' = update_result.result
                /\ filter_revset' =
                      [filter_revset EXCEPT !.error = filter_error(update_result.result),
                                            !.old_value = filter_revset.value]
       ELSE UNCHANGED <<graph, marked, filter_revset>>
    /\ UNCHANGED <<view_revset, node_idxs, working_copy_commit_id, immutable, view_updated,
                   before, builds>>
    /\ UNCHANGED <<graph_vars, history_vars>>

\* lines 345-348: the two text fields are shown and one of them may be edited
update_ui(filter_text, view_text) ==
    /\ tick = "ui"
    /\ filter_text = filter_revset.value \/ view_text = view_revset.value
    /\ filter_revset' = [filter_revset EXCEPT !.value = filter_text]
    /\ view_revset' = [view_revset EXCEPT !.value = view_text]
    /\ tick' = "idle"
    /\ UNCHANGED <<graph, node_idxs, working_copy_commit_id, immutable, view_updated,
                   before, builds, marked>>
    /\ UNCHANGED <<graph_vars, history_vars>>

(***************************************************************************)
(* Specifications.                                                         *)
(***************************************************************************)
NoHistory ==
    /\ items = <<>>
    /\ max_size = 0
    /\ view_pos = 0
    /\ last_is_tentative = FALSE
    /\ overflow_checks = FALSE
    /\ panicked = FALSE
    /\ added = FALSE
    /\ call = [op |-> "new"] @@ NoArg
    /\ pre = [items |-> <<>>, view_pos |-> 0, last_is_tentative |-> FALSE]

NoRevset == [stage |-> "ok", unbounded |-> FALSE, len |-> 0, offsets |-> {},
             failure |-> NoFailure]

\* no call of create_graph has been made
NoGraph ==
    /\ pc = "idle"
    /\ revset = NoRevset
    /\ loop = EmptyLoop
    /\ created = NotReturned

\* no ExplorerApp has been constructed
NoApp ==
    /\ tick = "none"
    /\ filter_revset = RevsetEntry_new("")
    /\ view_revset = RevsetEntry_new("")
    /\ graph = [nodes |-> <<>>, edges |-> <<>>, colors |-> <<>>]
    /\ node_idxs = <<>>
    /\ working_copy_commit_id = None
    /\ immutable = [stage |-> "ok", from |-> 1, fail_from |-> 0]
    /\ view_updated = FALSE
    /\ before = [filter_revset |-> RevsetEntry_new(""), view_revset |-> RevsetEntry_new(""),
                 graph |-> [nodes |-> <<>>, edges |-> <<>>, colors |-> <<>>],
                 node_idxs |-> <<>>]
    /\ builds = 0
    /\ marked = "none"

InitHistory == History_new /\ NoGraph /\ NoApp

NextHistory ==
    \/ \E arg \in Values, is_tentative \in BOOLEAN :
          add(arg, is_tentative) /\ UNCHANGED <<graph_vars, app_vars>>
    \/ \E is_tentative \in BOOLEAN :
          set_last_tentative(is_tentative) /\ UNCHANGED <<graph_vars, app_vars>>
    \/ prev /\ UNCHANGED <<graph_vars, app_vars>>
    \/ next /\ UNCHANGED <<graph_vars, app_vars>>

SpecHistory == InitHistory /\ [][NextHistory]_vars

InitBuild == NoHistory /\ NoGraph /\ NoApp

NextBuild ==
    \/ \E rs \in Revsets : create_graph(rs) /\ UNCHANGED app_vars
    \/ create_graph_iterate /\ UNCHANGED app_vars
    \/ create_graph_return /\ UNCHANGED app_vars

SpecBuild == InitBuild /\ [][NextBuild]_vars

InitApp == NoHistory /\ NoGraph /\ ExplorerApp_start

NextApp ==
    \/ new_create_graph
    \/ new_return
    \/ update_begin
    \/ create_graph_iterate /\ UNCHANGED app_vars
    \/ create_graph_return /\ UNCHANGED app_vars
    \/ update_apply
    \/ update_mark
    \/ \E filter_text \in Texts, view_text \in Texts : update_ui(filter_text, view_text)

SpecApp == InitApp /\ [][NextApp]_vars

(***************************************************************************)
(* Properties of History, read off the last call and the state it was      *)
(* made in.                                                                *)
(***************************************************************************)
\* the last call was add(arg, _) with arg different from the last entry, and it returned
AddedNew == call.op = "add" /\ ~panicked /\ ~last_is(pre.items, call.arg)

\* the last call was add on a non-empty history whose last entry was tentative
AddedOverTentative == AddedNew /\ Len(pre.items) > 0 /\ pre.last_is_tentative

\* the view cursor was on an older entry when the last call was made
WasInPast == pre.view_pos + 1 < Len(pre.items)

\* C1: with max_size >= 2, no two adjacent entries of the history are equal,
\* whatever calls have been made.
C1_NoAdjacentEqual ==
    max_size >= 2 => \A i \in 1..(Len(items) - 1) : items[i] # items[i + 1]

\* C2: an add of a different value to a full history whose last entry is
\* tentative leaves the older entries, without the tentative one, followed by
\* the new value; no older entry is evicted.
C2_TentativeNotCounted ==
    (AddedOverTentative /\ Len(pre.items) = max_size)
        => items = Append(pop(pre.items), call.arg)

\* C3: with max_size >= 1 the history never holds more than max_size entries,
\* an add to a full history that has no tentative entry to discard evicts
\* exactly the entry at index 0, and every add to a full history keeps the
\* entries it retains in their order, starting at the former index 1.
C3_BoundedOldestEvicted ==
    max_size >= 1 =>
        /\ Len(items) <= max_size
        /\ (AddedNew /\ Len(pre.items) = max_size) =>
              /\ ~pre.last_is_tentative => items = Append(Tail(pre.items), call.arg)
              /\ \A i \in 1..(Len(items) - 1) : items[i] = pre.items[i + 1]

C3_Witness ==
    /\ AddedNew
    /\ max_size >= 2
    /\ Len(pre.items) = max_size
    /\ ~pre.last_is_tentative
    /\ items = Append(Tail(pre.items), call.arg)

\* C4: with max_size >= 1, once an add has returned, view_pos indexes an
\* existing entry after every later call.
C4_CursorInRange ==
    (max_size >= 1 /\ added) => (view_pos >= 0 /\ view_pos < Len(items) /\ get_in_range)

\* next was called on the empty history before the first add, which then
\* brought the cursor back into range
C4_Witness ==
    /\ call.op = "add"
    /\ added
    /\ pre.items = <<>>
    /\ pre.view_pos > 0
    /\ get_in_range

\* C5: below capacity, an add of a value different from the tentative last
\* entry leaves the previous entries without the last one, followed by the
\* new value, wherever the cursor was and whatever the new tentativeness.
C5_TentativeDiscarded ==
    (AddedOverTentative /\ Len(pre.items) < max_size)
        => items = Append(pop(pre.items), call.arg)

C5_Witness ==
    /\ AddedOverTentative
    /\ Len(pre.items) < max_size
    /\ WasInPast
    /\ call.is_tentative
    /\ items = Append(pop(pre.items), call.arg)

\* C6: after an add of a value different from the last entry, the last entry
\* is that value, the tentative flag is the one passed, the cursor is on the
\* last entry and get returns the value.
C6_AddMovesToNew ==
    AddedNew =>
        /\ last_is(items, call.arg)
        /\ last_is_tentative = call.is_tentative
        /\ view_pos = Len(items) - 1
        /\ get_in_range
        /\ get = call.arg

C6_Witness ==
    /\ AddedNew
    /\ WasInPast
    /\ get_in_range
    /\ get = call.arg
    /\ last_is_tentative = call.is_tentative

\* C7: an add of the value of the last entry changes neither the entries nor
\* the cursor nor the tentative flag.
C7_DuplicateIsNoOp ==
    (call.op = "add" /\ last_is(pre.items, call.arg)) =>
        /\ items = pre.items
        /\ view_pos = pre.view_pos
        /\ last_is_tentative = pre.last_is_tentative

C7_Witness ==
    /\ call.op = "add"
    /\ last_is(pre.items, call.arg)
    /\ WasInPast
    /\ call.is_tentative # pre.last_is_tentative
    /\ items = pre.items

\* C8: on a non-empty history prev moves the cursor down by one unless it is
\* 0, next moves it up by one unless it is on the last index, and neither
\* changes the entries or the tentative flag.
C8_Navigation ==
    Len(pre.items) > 0 =>
        /\ call.op = "prev" =>
              /\ view_pos = (IF pre.view_pos = 0 THEN 0 ELSE pre.view_pos - 1)
              /\ items = pre.items
              /\ last_is_tentative = pre.last_is_tentative
        /\ call.op = "next" =>
              /\ view_pos = (IF pre.view_pos = Len(pre.items) - 1
                             THEN pre.view_pos ELSE pre.view_pos + 1)
              /\ items = pre.items
              /\ last_is_tentative = pre.last_is_tentative

\* a prev from the middle of a history of three whose last entry is tentative
C8_Witness ==
    /\ call.op = "prev"
    /\ Len(pre.items) > 2
    /\ pre.view_pos = 1
    /\ view_pos = 0
    /\ last_is_tentative

(***************************************************************************)
(* Properties of the graph create_graph returns.                           *)
(***************************************************************************)
\* the call for `revset` has returned Ok
Built == pc = "idle" /\ created.ok

Min(a, b) == IF a < b THEN a ELSE b

\* the ids of the nodes of the returned graph
NodeIds == {created.graph.nodes[n] : n \in 1..Len(created.graph.nodes)}

\* the returned edges as pairs of commit ids
EdgeIds ==
    {<<created.graph.nodes[created.graph.edges[k][1]],
       created.graph.nodes[created.graph.edges[k][2]]>> :
        k \in 1..Len(created.graph.edges)}

\* C9: a successful build returns min(length, MAX_NODES) nodes (MAX_NODES for
\* a sequence without end), never more than MAX_NODES, and limit_hit is set
\* exactly when MAX_NODES nodes were returned.
C9_NodeCap ==
    Built =>
        /\ Len(created.node_idxs) =
              (IF revset.unbounded THEN MAX_NODES ELSE Min(revset.len, MAX_NODES))
        /\ Len(created.graph.nodes) = Len(created.node_idxs)
        /\ Len(created.node_idxs) <= MAX_NODES
        /\ created.limit_hit <=> (Len(created.node_idxs) = MAX_NODES)

\* a sequence longer than the cap was cut to MAX_NODES nodes
C9_Witness ==
    /\ Built
    /\ ~revset.unbounded
    /\ revset.len > MAX_NODES
    /\ Len(created.node_idxs) = MAX_NODES
    /\ created.limit_hit

\* C10: both ends of every returned edge are nodes of the returned graph, and
\* every parent link between two consumed commits is a returned edge; links
\* to other commits are dropped and the build still succeeds.
C10_EdgesWithinNodes ==
    Built =>
        /\ \A k \in 1..Len(created.graph.edges) :
              /\ created.graph.edges[k][1] \in 1..Len(created.graph.nodes)
              /\ created.graph.edges[k][2] \in 1..Len(created.graph.nodes)
        /\ \A c \in NodeIds : \A d \in revset.offsets :
              (c + d \in NodeIds) <=> (<<c, c + d>> \in EdgeIds)

\* a capped build with parent links both inside and beyond the cap
C10_Witness ==
    /\ Built
    /\ revset.len > MAX_NODES
    /\ revset.offsets # {}
    /\ Len(created.graph.nodes) = MAX_NODES
    /\ Len(created.graph.edges) > 0
    /\ Len(created.graph.edges) < MAX_NODES * Cardinality(revset.offsets)

(***************************************************************************)
(* Properties of ExplorerApp::update, read off the state in which the      *)
(* processing of an update is over (tick = "ui") and the fields as they    *)
(* were when it began.                                                     *)
(***************************************************************************)
Processed == tick = "ui"

\* the update called create_graph, which returned Err
BuildFailed == Processed /\ builds = 1 /\ ~created.ok

\* the update called create_graph, which returned Ok
BuildSucceeded == Processed /\ builds = 1 /\ created.ok

\* the displayed graph is the one that was displayed when the update began
GraphKept == ~BuildSucceeded

\* C11: an update whose build fails, with an unchanged selection text, leaves
\* the graph, the node list and the colour of every node as they were.
C11_FailedBuildKeepsGraph ==
    (BuildFailed /\ ~is_dirty(before.filter_revset)) =>
        /\ graph = before.graph
        /\ node_idxs = before.node_idxs

\* the build failed on the second item of the sequence and a marked graph stayed
C11_Witness ==
    /\ BuildFailed
    /\ ~is_dirty(before.filter_revset)
    /\ created.err = "JjError"
    /\ loop.requested = 2
    /\ Len(graph.nodes) > 1
    /\ graph.colors[1] # NoColor
    /\ graph = before.graph

\* C12: when mark_graph returns the engine error, every node has the colour
\* it had before the update.
C12_EngineErrorKeepsCategories ==
    (Processed /\ marked = "JjError" /\ GraphKept) =>
        graph.colors = before.graph.colors

\* C13: when mark_graph returns the engine error, the error of the selection
\* field is what it was before the update.
C13_EngineErrorKeepsFilterError ==
    (Processed /\ marked = "JjError") =>
        filter_revset.error = before.filter_revset.error

\* C14: after an update whose build succeeded the view field has no error,
\* also when the build returned MAX_NODES nodes.
C14_NoViewErrorAfterBuild ==
    BuildSucceeded => view_revset.error = NoError

\* the six categories
Categories == {"WorkingCopy", "Immutable", "Regular"} \X {"Match", "NoMatch"}

\* the category the claim gives a commit: the working copy first, then
\* immutable, then regular; matched when the selection contains it
CategoryOf(commit_id) ==
    <<IF working_copy_commit_id # None /\ commit_id = working_copy_commit_id
        THEN "WorkingCopy"
      ELSE IF commit_id >= immutable.from THEN "Immutable"
      ELSE "Regular",
      IF /\ engine(filter_revset.old_value).stage = "ok"
         /\ commit_id <= engine(filter_revset.old_value).len
        THEN "Match"
      ELSE "NoMatch">>

\* C15: after an update that built the graph for a valid view text while the
\* selection text does not resolve, the graph is the full one, every node
\* has the NoMatch colour of its own type, the selection field shows the
\* parse error and the view field shows none.
C15_BadFilterStillMarks ==
    (BuildSucceeded /\ marked = "RevsetParseError") =>
        /\ graph.nodes = created.graph.nodes
        /\ graph.edges = created.graph.edges
        /\ Len(graph.nodes) = Min(engine(view_revset.value).len, MAX_NODES)
        /\ \A i \in 1..Len(graph.nodes) :
              graph.colors[i] = color_map(CategoryOf(graph.nodes[i])[1], "NoMatch")
        /\ filter_revset.error = "RevsetParseError"
        /\ view_revset.error = NoError

\* C16: a completed classification gives every node the colour of exactly
\* one of the six categories, the one its working-copy identity,
\* immutability and selection membership determine, and the six colours
\* are pairwise distinct.
C16_SixCategories ==
    /\ Cardinality({color_map(c[1], c[2]) : c \in Categories}) = 6
    /\ (Processed /\ marked \in {"Ok", "RevsetParseError"}) =>
          \A i \in 1..Len(graph.nodes) :
              /\ graph.colors[i] =
                    color_map(CategoryOf(graph.nodes[i])[1], CategoryOf(graph.nodes[i])[2])
              /\ Cardinality({c \in Categories : color_map(c[1], c[2]) = graph.colors[i]}) = 1

\* the working copy is immutable as well and is shown as the working copy
C16_Witness ==
    /\ Processed
    /\ marked = "Ok"
    /\ working_copy_commit_id = 1
    /\ immutable.from = 1
    /\ Len(graph.nodes) > 1
    /\ graph.colors[1] = color_map("WorkingCopy", "Match")
    /\ graph.colors[2] = color_map("Immutable", "NoMatch")

\* C17: create_graph returns the parse error exactly when the text is
\* malformed and the engine error for every other failure.
C17_ParseOnlyWhenMalformed ==
    (pc = "idle" /\ ~created.ok /\ created.err # "none") =>
        /\ created.err = "RevsetParseError" <=> revset.stage = "parse"
        /\ created.err = "JjError" <=> revset.stage # "parse"

\* C18: an update builds exactly when the view text differs from the text
\* last processed; after a failed build the error is recorded and the text
\* counts as processed, and an update that does not build leaves the error.
C18_NoRebuildUntilTextChanges ==
    Processed =>
        /\ builds = (IF is_dirty(before.view_revset) THEN 1 ELSE 0)
        /\ BuildFailed =>
              /\ view_revset.error # NoError
              /\ ~is_dirty(view_revset)
        /\ builds = 0 => view_revset.error = before.view_revset.error

\* a failed build in an earlier update: this one did not build and the
\* error is still shown
C18_Witness ==
    /\ Processed
    /\ builds = 0
    /\ ~created.ok
    /\ view_revset.error = created.err
    /\ view_revset.error # NoError
    /\ marked # "none"

\* C19: mark_graph runs exactly when the view text changed or the selection
\* text is dirty; after a failed build it has run on the graph that stayed
\* and the selection field is updated from its result; a selection text
\* that fails does not keep a changed view text from being built and applied.
C19_FieldsIndependent ==
    Processed =>
        /\ marked # "none" <=> (is_dirty(before.view_revset) \/ is_dirty(before.filter_revset))
        /\ BuildFailed =>
              /\ marked # "none"
              /\ graph.nodes = before.graph.nodes
              /\ ~is_dirty(filter_revset)
              /\ marked = "RevsetParseError" => filter_revset.error = "RevsetParseError"
              /\ marked = "Ok" => filter_revset.error = NoError
        /\ (marked \in {"RevsetParseError", "JjError"} /\ is_dirty(before.view_revset)) =>
              /\ builds = 1
              /\ ~is_dirty(view_revset)
              /\ created.ok =>
                    /\ graph.nodes = created.graph.nodes
                    /\ graph.edges = created.graph.edges
                    /\ node_idxs = created.node_idxs

\* the build failed and the selection text was still marked on the graph that stayed
C19_Witness ==
    /\ BuildFailed
    /\ marked = "Ok"
    /\ Len(graph.nodes) > 0
    /\ graph.nodes = before.graph.nodes
    /\ filter_revset.error = NoError
    /\ ~is_dirty(filter_revset)

\* C20: create_graph never asks iter_graph for more than MAX_NODES items,
\* and every step of the loop asks for one more or leaves the loop, so the
\* loop ends.
C20_AtMostMaxNodesRequested ==
    /\ [](loop.requested <= MAX_NODES)
    /\ [][pc = "loop" => (pc' # "loop" \/ loop'.requested = loop.requested + 1)]_vars

\* a sequence without end was built: exactly MAX_NODES items were asked for
C20_Witness ==
    /\ Built
    /\ revset.unbounded
    /\ loop.requested = MAX_NODES
    /\ Len(created.node_idxs) = MAX_NODES

\* the step is an add of a value other than the last entry that comes directly
\* after a set_last_tentative, in a history with an entry and room for two
AddAfterSetLastTentative ==
    /\ max_size >= 2
    /\ call.op = "set_last_tentative"
    /\ call'.op = "add"
    /\ Len(items) > 0
    /\ ~last_is(items, call'.arg)

\* C21: set_last_tentative(b) leaves the entries and the cursor as they were and
\* sets the tentativeness to b; the add of another value that follows
\* set_last_tentative(TRUE) puts the value in the place of the last entry, and
\* the one that follows set_last_tentative(FALSE) puts it after the last entry
C21_SetLastTentative ==
    /\ [](call.op = "set_last_tentative" =>
             /\ items = pre.items
             /\ view_pos = pre.view_pos
             /\ last_is_tentative = call.is_tentative)
    /\ [][AddAfterSetLastTentative =>
             IF call.is_tentative
             THEN items' = Append(pop(items), call'.arg)
             ELSE /\ Len(items') >= 2
                  /\ items'[Len(items') - 1] = items[Len(items)]
                  /\ items'[Len(items')] = call'.arg]_vars

\* C22: an update that starts with neither text changed builds nothing, marks
\* nothing and leaves the graph, the node list, the colours, both errors and
\* both processed texts as they were; and after the processing of every update
\* the processed text of each field is its text
C22_IdleTickChangesNothing ==
    Processed =>
        /\ (~is_dirty(before.view_revset) /\ ~is_dirty(before.filter_revset)) =>
              /\ builds = 0
              /\ marked = "none"
              /\ graph = before.graph
              /\ node_idxs = before.node_idxs
              /\ view_revset = before.view_revset
              /\ filter_revset = before.filter_revset
        /\ view_revset.old_value = view_revset.value
        /\ filter_revset.old_value = filter_revset.value

\* an update with both texts unchanged was processed while a graph is shown and
\* the view field holds an error from an earlier update
C22_Witness ==
    /\ Processed
    /\ ~is_dirty(before.view_revset)
    /\ ~is_dirty(before.filter_revset)
    /\ builds = 0
    /\ marked = "none"
    /\ Len(graph.nodes) > 0
    /\ view_revset.error # NoError

\* C23: add, prev, next and set_last_tentative never stop the program and never
\* subtract below zero, whatever the history holds and whatever its max_size
C23_NoOperationFails ==
    /\ ~panicked
    /\ call.op = "next" => ~next_underflows(pre.items)

====
